---- MODULE Spec2Model ----
(***************************************************************************)
(* State-machine model of mediafire.py: the main thread walking the links  *)
(* (main), the folder tree (get_folders) and one download pool per folder  *)
(* (download_folder), and the worker threads running download_file.        *)
(*                                                                         *)
(* The remote service and the user are the environment: the listing of a   *)
(* folder, the outcome of each network request and the arrival of a        *)
(* KeyboardInterrupt are chosen nondeterministically.  A KeyboardInterrupt *)
(* is delivered to the main thread at whatever statement it is executing.  *)
(* Within one folder the normalized file names are distinct, so each entry *)
(* of a listing has its own local file.  Names and path strings are        *)
(* sequences of characters, directories are absolute paths; the process    *)
(* starts in StartDir and every directory it meets is either new or left   *)
(* by an earlier run.                                                      *)
(***************************************************************************)
EXTENDS Integers, Sequences, FiniteSets

\* ---- bounds -------------------------------------------------------------
MaxThreads == 2      \* threads_num ranges over 1..MaxThreads
MaxFiles == 2        \* files in the folder of a download_folder call checked on its own
MaxTreeFiles == 1    \* files in each folder of a whole run
MaxPages == 2        \* chunks of one folder's file listing
MaxChunks == 2       \* chunks in one response body
MaxLinks == 2        \* links in the batch
MaxInterrupts == 2   \* KeyboardInterrupts delivered during one run

VARIABLES
    links,        \* main: the list returned by extract_links_from_file
    li,           \* main: index of the link the for loop is at
    linkLog,      \* history, per link: "invalid" (line 54) or "request" (a network call)
    threads_num,  \* main: threads_num
    output_path,  \* main: output_path, a path string
    style,        \* remote: the characters the display names of folders are made of
    cwd,          \* the process's working directory, an absolute path
    dirs,         \* the directories that are known to exist
    visits,       \* history: the folder keys get_folders was called with, current link
    mpc,          \* position of the main thread
    outcome,      \* "running" | "completed" | "interrupted" | "crashed:<missing field>"
    stack,        \* active get_folders calls, innermost last
    pages,        \* remote: the file listing of the current folder, chunk by chunk
    chunk,        \* download_folder: chunk
    more_chunks,  \* download_folder: more_chunks
    data,         \* download_folder: data
    requested,    \* history: chunk numbers download_folder asked for
    event,        \* download_folder: event (threading.Event)
    setCount,     \* history: calls of event.set() on the current event
    permits,      \* download_folder: threadLimiter's counter
    si,           \* download_folder: index of the start loop / join loop
    owner,        \* history: key of the folder whose download_folder made the threads
    wpc,          \* per thread of total_threads: position in download_file
    wres,         \* per thread: terminal state reached
    acq,          \* history, per thread: permits acquired
    rel,          \* history, per thread: permits released
    netreq,       \* history, per thread: a network request was issued
    pos,          \* per thread: chunks taken from r.iter_content
    pre,          \* history, per thread: what line 179 found on disk
    sigMid,       \* history, per thread: event was set while the thread was mid-transfer
    after,        \* history, per thread: what the thread did while event was set
    lateStart,    \* history: a thread was started after event was set
    poolInt,      \* history: a KeyboardInterrupt arrived while the pool was active
    disk,         \* local files of the current folder, per listing entry
    interrupts    \* KeyboardInterrupts delivered so far

vars == << links, li, linkLog, threads_num, output_path, style, cwd, dirs, visits,
           owner, mpc, outcome, stack, pages, chunk, more_chunks,
           data, requested, event, setCount, permits, si, wpc, wres, acq, rel,
           netreq, pos, pre, sigMid, after, lateStart, poolInt, disk, interrupts >>

inputs == << links, threads_num, output_path, style >>
mainVars == << inputs, li, linkLog >>
fsVars == << cwd, dirs, visits >>
listVars == << pages, chunk, more_chunks, data, requested >>
workerVars == << wpc, wres, acq, rel, netreq, pos, pre, sigMid, after, disk >>
poolVars == << event, setCount, permits, si, lateStart, owner >>

\* ---- remote service -----------------------------------------------------
\* a link of the batch: host, path kind and key as the pattern of lines 49-51
\* sees them; the last two lack the canonical shape
Url(host, kind, key) == [host |-> host, kind |-> kind, key |-> key]

LinkSet ==
    { Url("mediafire.com", "folder", "F"),
      Url("mediafire.com", "file", "q"),
      Url("mediafire.com", "file_premium", "q"),
      Url("mediafire.com", "view", "q"),
      Url("mediafire.com", "folder", "") }

\* the pattern with ([a-zA-Z0-9]*) for the key
FindAllAnyKey(link) ==
    IF link.host = "mediafire.com" /\ link.kind \in {"folder", "file", "file_premium"}
    THEN << << link.kind, link.key >> >>
    ELSE <<>>

\* lines 49-51: re.findall(r"mediafire\.com/(folder|file|file_premium)/([a-zA-Z0-9]+)")
FindAll(link) ==
    IF /\ link.host = "mediafire.com"
       /\ link.kind \in {"folder", "file", "file_premium"}
       /\ link.key # ""
    THEN << << link.kind, link.key >> >>
    ELSE <<>>

RootKey == "F"

\* the subfolder listing of a folder, chunk by chunk
FolderChunks(key) ==
    CASE key = "F" -> << <<"A", "B">>, <<"C">> >>
      [] key = "A" -> << <<"D">> >>
      [] OTHER -> << <<>> >>

\* the display name of a folder: only letters, or with a character no file
\* system likes, or with a path separator
Styles == {"plain", "punct", "slash"}

RemoteName(key, st) ==
    CASE st = "plain" -> << key >>
      [] st = "punct" -> << key, ":", "x" >>
      [] st = "slash" -> << key, "/", "x" >>

\* ---- names and paths (os, os.path) ------------------------------------------
\* a name or a path string is a sequence of characters; an absolute path is
\* the sequence of its components below the root
Alnum == {"A", "B", "C", "D", "F", "o", "q", "s", "x"}

\* lines 24-32
normalize_file_or_folder_name(name) ==
    [k \in 1..Len(name) |->
        IF name[k] \in Alnum \/ name[k] \in {"-", "_", ".", " "} THEN name[k] ELSE "-"]

\* os.path.join of two path strings (lines 97-104)
Join(a, b) ==
    IF b # <<>> /\ b[1] = "/" THEN b
    ELSE IF a = <<>> \/ a[Len(a)] = "/" THEN a \o b
    ELSE a \o << "/" >> \o b

\* the components of a path string
RECURSIVE Split(_)
Split(p) ==
    IF \A k \in 1..Len(p) : p[k] # "/" THEN << p >>
    ELSE LET k == CHOOSE k \in 1..Len(p) :
                      p[k] = "/" /\ \A j \in 1..(k - 1) : p[j] # "/"
         IN  << SubSeq(p, 1, k - 1) >> \o Split(SubSeq(p, k + 1, Len(p)))

\* following components from a directory: "" and "." stay, ".." goes up
RECURSIVE Walk(_, _)
Walk(at, comps) ==
    IF comps = <<>> THEN at
    ELSE LET c == Head(comps)
             to == IF c = <<>> \/ c = << "." >> THEN at
                   ELSE IF c = << ".", "." >>
                        THEN SubSeq(at, 1, IF at = <<>> THEN 0 ELSE Len(at) - 1)
                        ELSE Append(at, c)
         IN  Walk(to, Tail(comps))

\* the directory a path string names for a process whose working directory
\* is at (os.chdir, os.makedirs, os.path.exists, lines 63, 106-108, 119)
AbsPath(at, p) == Walk(IF p # <<>> /\ p[1] = "/" THEN <<>> ELSE at, Split(p))

\* os.makedirs: the directory and its missing ancestors
Makedirs(ds, d) == ds \cup { SubSeq(d, 1, n) : n \in 0..Len(d) }

\* the directory the program is started in, and the values of output_path:
\* the default "." (line 42) and an absolute path
StartDir == << << "s" >> >>
OutputPaths == { << "." >>, << "/", "o" >> }

\* line 106 with the test dropped
MustCreateAlways(exists) == TRUE

\* line 106: if not os.path.exists(folder_name)
MustCreate(exists) == ~exists

RECURSIVE SumTo(_, _)
SumTo(s, n) == IF n = 0 THEN 0 ELSE s[n] + SumTo(s, n - 1)

\* page sizes of a file listing: 1..MaxPages chunks, at most n files
Pagings(n) ==
    { s \in UNION { [1..k -> 0..n] : k \in 1..MaxPages } : SumTo(s, Len(s)) <= n }

\* entries are numbered in listing order
PagesOf(s) ==
    [ p \in 1..Len(s) |-> [ j \in 1..s[p] |-> SumTo(s, p - 1) + j ] ]

\* the response body of an entry's download link; 0 is an empty chunk
Body(e) == [ k \in 1..MaxChunks |-> IF e % 2 = 0 /\ k = 1 THEN 0 ELSE k ]

RECURSIVE Content(_)
Content(body) ==
    IF body = <<>> THEN <<>>
    ELSE IF Head(body) = 0 THEN Content(Tail(body))
         ELSE <<Head(body)>> \o Content(Tail(body))

\* ---- local files ----------------------------------------------------------
Absent == [exists |-> FALSE, bytes |-> <<>>]
File(bytes) == [exists |-> TRUE, bytes |-> bytes]
Stale == File(<<3>>)

HashBase == 4

RECURSIVE hash_file(_)
hash_file(bytes) ==
    IF bytes = <<>> THEN 0
    ELSE hash_file(SubSeq(bytes, 1, Len(bytes) - 1)) * HashBase + bytes[Len(bytes)]

RemoteHash(e) == hash_file(Content(Body(e)))

PreFiles(e) == {Absent, File(Content(Body(e))), Stale}

\* nothing done yet while event was set: the pre-transfer check (line 190) saw
\* event set, chunks taken from r.iter_content and chunks written while it
\* was set, and whether r.iter_content was exhausted
NothingAfter == [late |-> FALSE, reads |-> 0, writes |-> 0, full |-> FALSE]

NotChecked == [checked |-> FALSE, file |-> Absent, sig |-> FALSE]
Checked(f, sig) == [checked |-> TRUE, file |-> f, sig |-> sig]

Entries(d) == { d[i] : i \in 1..Len(d) }

\* ---- helpers ----------------------------------------------------------------
Threads == DOMAIN wpc
Alive(i) == wpc[i] \notin {"unstarted", "ended"}
Holding(i) == acq[i] > rel[i]
MidTransfer(i) == wpc[i] \in {"s_read", "s_check", "s_write"}
PoolPcs == {"df_start", "df_wait", "df_except", "df_join"}

\* a limiter one permit too large
BoundedSemaphoreOffByOne(n) == n + 1

\* line 140: threading.BoundedSemaphore(n), its initial counter
BoundedSemaphore(n) == n

\* the flag compared with a value the server never sends
MoreChunksWrongLiteral(flag) == flag = "true"

\* line 131: more_chunks = flag == "yes"
MoreChunks(flag) == flag = "yes"

\* line 132: data += files
Accumulate(d, files) == d \o files

\* the release forgotten in the handler of lines 221-226
ReleasesOnButFailed(path) == path # "failed"

\* the limiter.release() of each exit path of download_file (lines 182-183,
\* 192-193, 207-208, 224-225, 232-233, 238-239)
ReleasesOn(path) == TRUE

\* the comparison of line 180 inverted
UpToDateInverted(f, e) == f.exists /\ hash_file(f.bytes) # RemoteHash(e)

\* lines 179-180: os.path.exists(filename) and hash_file(filename) == file["hash"]
UpToDate(f, e) == f.exists /\ hash_file(f.bytes) = RemoteHash(e)

\* the file opened for appending
OpenAb(f) == File(f.bytes)

\* line 214: open(filename, "wb")
OpenWb(f) == File(<<>>)

\* lines 219-220: if chunk: f.write(chunk)
WriteChunk(f, c) == IF c # 0 THEN File(f.bytes \o <<c>>) ELSE f

\* the locals of download_folder and the files of its folder, before the call
\* and after its return
NoPool ==
    /\ pages = <<>> /\ chunk = 1 /\ more_chunks = TRUE /\ data = <<>>
    /\ requested = <<>>
    /\ event = FALSE /\ setCount = 0 /\ permits = 0 /\ si = 1
    /\ lateStart = FALSE /\ owner = ""
    /\ wpc = <<>> /\ wres = <<>> /\ acq = <<>> /\ rel = <<>> /\ netreq = <<>>
    /\ pos = <<>> /\ pre = <<>> /\ sigMid = <<>> /\ after = <<>> /\ disk = <<>>

LeaveFolder ==
    /\ pages' = <<>> /\ chunk' = 1 /\ more_chunks' = TRUE /\ data' = <<>>
    /\ requested' = <<>>
    /\ event' = FALSE /\ setCount' = 0 /\ permits' = 0 /\ si' = 1
    /\ lateStart' = FALSE /\ owner' = ""
    /\ wpc' = <<>> /\ wres' = <<>> /\ acq' = <<>> /\ rel' = <<>> /\ netreq' = <<>>
    /\ pos' = <<>> /\ pre' = <<>> /\ sigMid' = <<>> /\ after' = <<>> /\ disk' = <<>>

Init ==
    /\ links \in UNION { [1..n -> LinkSet] : n \in 1..MaxLinks }
    /\ li = 1
    /\ linkLog = [k \in 1..Len(links) |-> ""]
    /\ threads_num = MaxThreads   \* no folder of a whole run has more files
    /\ output_path \in OutputPaths
    /\ style \in Styles
    /\ cwd = StartDir
    /\ dirs = Makedirs(Makedirs({}, StartDir), AbsPath(StartDir, output_path))
    /\ visits = <<>>
    /\ mpc = "main"
    /\ outcome = "running"
    /\ stack = <<>>
    /\ NoPool
    /\ poolInt = FALSE
    /\ interrupts = 0

\* a call of get_folders: its arguments, the directory it changed to, what
\* line 106 found and whether line 107 ran (both kept while download_folder
\* runs), the subfolders it iterates
Frame(key, name, first) ==
    [key |-> key, folder_name |-> name, first |-> first, dir |-> <<>>,
     existed |-> FALSE, made |-> FALSE, kids |-> <<>>, ci |-> 0]
Top == stack[Len(stack)]
SetTop(f) == [stack EXCEPT ![Len(stack)] = f]

\* ---- main (lines 48-72) ---------------------------------------------------
\* a network call is made while link li is being processed
Requested == [linkLog EXCEPT ![li] = "request"]

\* lines 53-55: no match, "Invalid link"
MainInvalid ==
    /\ mpc = "main" /\ li <= Len(links) /\ FindAll(links[li]) = <<>>
    /\ linkLog' = [linkLog EXCEPT ![li] = "invalid"]
    /\ li' = li + 1
    /\ UNCHANGED << fsVars, inputs, mpc, outcome, stack, listVars, poolVars, workerVars,
                    poolInt, interrupts >>

\* lines 57 and 66-67: a folder link
MainFolder ==
    /\ mpc = "main" /\ li <= Len(links) /\ FindAll(links[li]) # <<>>
    /\ FindAll(links[li])[1][1] = "folder"
    /\ stack' = << Frame(FindAll(links[li])[1][2], output_path, TRUE) >>
    /\ visits' = << FindAll(links[li])[1][2] >>
    /\ mpc' = "gf_info"
    /\ UNCHANGED << cwd, dirs, mainVars, outcome, listVars, poolVars, workerVars,
                    poolInt, interrupts >>

\* lines 59-60: a file link, its file_info; KeyError is not caught
MainFile ==
    /\ mpc = "main" /\ li <= Len(links) /\ FindAll(links[li]) # <<>>
    /\ FindAll(links[li])[1][1] \in {"file", "file_premium"}
    /\ linkLog' = Requested
    /\ \E ok \in BOOLEAN :
        IF ok THEN mpc' = "file_chdir" /\ outcome' = outcome
        ELSE mpc' = "shutdown" /\ outcome' = "crashed:file_info"
    /\ UNCHANGED << fsVars, inputs, li, stack, listVars, poolVars, workerVars, poolInt,
                    interrupts >>

\* lines 62-65: os.chdir(output_path), then download_file(file_data) in the
\* main thread, without event and limiter
MainFileCall ==
    /\ mpc = "file_chdir"
    /\ mpc' = "file_dl"
    /\ data' = << 1 >>
    /\ wpc' = << "check" >>
    /\ wres' = << "none" >>
    /\ acq' = << 0 >>
    /\ rel' = << 0 >>
    /\ netreq' = << FALSE >>
    /\ pos' = << 0 >>
    /\ pre' = << NotChecked >>
    /\ sigMid' = << FALSE >>
    /\ after' = << NothingAfter >>
    /\ \E f \in PreFiles(1) : disk' = << f >>
    /\ cwd' = AbsPath(cwd, output_path)
    /\ UNCHANGED << dirs, visits, mainVars, outcome, stack, pages, chunk, more_chunks,
                    requested, poolVars, poolInt, interrupts >>

\* download_file has returned to line 48
MainFileReturn ==
    /\ mpc = "file_dl" /\ wpc[1] = "returning"
    /\ mpc' = "main"
    /\ li' = li + 1
    /\ LeaveFolder
    /\ UNCHANGED << fsVars, inputs, linkLog, outcome, stack, poolInt, interrupts >>

\* line 72: "All downloads completed"
MainDone ==
    /\ mpc = "main" /\ li > Len(links)
    /\ mpc' = "shutdown"
    /\ outcome' = "completed"
    /\ UNCHANGED << fsVars, mainVars, stack, listVars, poolVars, workerVars, poolInt,
                    interrupts >>

\* ---- get_folders (lines 93-119) -------------------------------------------
\* lines 96-104: the folder's display name, normalized and joined to the
\* folder_name argument; a response without the fields raises KeyError, which
\* nothing catches
GetFoldersInfo ==
    /\ mpc = "gf_info"
    /\ \E ok \in BOOLEAN :
        IF ok
        THEN /\ stack' = SetTop([Top EXCEPT !.folder_name =
                    Join(@, normalize_file_or_folder_name(RemoteName(Top.key, style)))])
             /\ mpc' = "gf_mkdir"
             /\ outcome' = outcome
        ELSE /\ stack' = stack
             /\ mpc' = "shutdown"
             /\ outcome' = "crashed:folder_info"
    /\ linkLog' = Requested
    /\ UNCHANGED << fsVars, inputs, li, listVars, poolVars, workerVars, poolInt,
                    interrupts >>

\* lines 106-110 and 122-124: directory, chdir, entry of download_folder; the
\* directory may be there from an earlier run; os.makedirs of a directory
\* that exists raises FileExistsError
GetFoldersEnter ==
    /\ mpc = "gf_mkdir"
    /\ \E earlier \in BOOLEAN :
        LET target == AbsPath(cwd, Top.folder_name)
            exists == target \in dirs \/ earlier
        IN  IF MustCreate(exists) /\ exists
            THEN /\ mpc' = "shutdown"
                 /\ outcome' = "crashed:makedirs"
                 /\ UNCHANGED << stack, cwd, dirs, listVars >>
            ELSE /\ stack' = SetTop([Top EXCEPT !.dir = target,
                                                !.existed = exists,
                                                !.made = MustCreate(exists)])
                 /\ dirs' = Makedirs(dirs, target)
                 /\ cwd' = target
                 /\ \E s \in Pagings(MaxTreeFiles) : pages' = PagesOf(s)
                 /\ data' = <<>>
                 /\ chunk' = 1
                 /\ more_chunks' = TRUE
                 /\ requested' = <<>>
                 /\ mpc' = "df_list"
                 /\ outcome' = outcome
    /\ UNCHANGED << visits, mainVars, poolVars, workerVars, poolInt, interrupts >>

\* lines 112-116: the subfolder listing (chunk 1); KeyError is not caught
GetFoldersList ==
    /\ mpc = "gf_sub"
    /\ \E ok \in BOOLEAN :
        IF ok
        THEN /\ stack' = SetTop([Top EXCEPT !.kids = FolderChunks(Top.key)[1],
                                            !.ci = 1,
                                            !.existed = FALSE,
                                            !.made = FALSE])
             /\ mpc' = "gf_iter"
             /\ outcome' = outcome
        ELSE /\ mpc' = "shutdown"
             /\ outcome' = "crashed:folder_content"
             /\ stack' = stack
    /\ linkLog' = Requested
    /\ UNCHANGED << fsVars, inputs, li, listVars, poolVars, workerVars, poolInt,
                    interrupts >>

\* line 118: recurse into the next subfolder, with its name as the server
\* gave it
GetFoldersRecurse ==
    /\ mpc = "gf_iter" /\ Top.ci <= Len(Top.kids)
    /\ stack' = Append(stack, Frame(Top.kids[Top.ci],
                                    RemoteName(Top.kids[Top.ci], style), FALSE))
    /\ visits' = Append(visits, Top.kids[Top.ci])
    /\ mpc' = "gf_mkdir"
    /\ UNCHANGED << cwd, dirs, mainVars, outcome, listVars, poolVars, workerVars,
                    poolInt, interrupts >>

\* end of get_folders: back in the caller, at os.chdir("..") of line 119 or
\* in the loop of main
GetFoldersReturn ==
    /\ mpc = "gf_iter" /\ Top.ci > Len(Top.kids)
    /\ IF Len(stack) = 1
       THEN /\ stack' = <<>>
            /\ li' = li + 1
            /\ mpc' = "main"
            /\ cwd' = cwd
       ELSE /\ stack' = [ SubSeq(stack, 1, Len(stack) - 1)
                            EXCEPT ![Len(stack) - 1].ci = @ + 1 ]
            /\ li' = li
            /\ mpc' = "gf_iter"
            /\ cwd' = AbsPath(cwd, << ".", "." >>)
    /\ UNCHANGED << dirs, visits, inputs, linkLog, outcome, listVars, poolVars,
                    workerVars, poolInt, interrupts >>

\* ---- download_folder (lines 121-169) --------------------------------------
\* the server's answer to a request for chunk c
FilesOfChunk(c) == IF c <= Len(pages) THEN pages[c] ELSE <<>>
FlagOfChunk(c) == IF c < Len(pages) THEN "yes" ELSE "no"

\* lines 127-133: one request of the listing loop
ListChunk ==
    /\ mpc = "df_list" /\ more_chunks
    /\ requested' = Append(requested, chunk)
    /\ more_chunks' = MoreChunks(FlagOfChunk(chunk))
    /\ data' = Accumulate(data, FilesOfChunk(chunk))
    /\ chunk' = chunk + 1
    /\ linkLog' = Requested
    /\ UNCHANGED << fsVars, inputs, li, mpc, outcome, stack, pages, poolVars,
                    workerVars, poolInt, interrupts >>

\* lines 135-137: a response without the expected fields
ListKeyError ==
    /\ mpc = "df_list" /\ more_chunks
    /\ mpc' = "gf_sub"
    /\ linkLog' = Requested
    /\ LeaveFolder
    /\ UNCHANGED << fsVars, inputs, li, outcome, stack, poolInt, interrupts >>

\* lines 139-153: event, threadLimiter, total_threads
CreatePool ==
    /\ mpc = "df_list" /\ ~more_chunks
    /\ event' = FALSE
    /\ setCount' = 0
    /\ lateStart' = FALSE
    /\ owner' = Top.key
    /\ permits' = BoundedSemaphore(threads_num)
    /\ si' = 1
    /\ wpc' = [i \in 1..Len(data) |-> "unstarted"]
    /\ wres' = [i \in 1..Len(data) |-> "none"]
    /\ acq' = [i \in 1..Len(data) |-> 0]
    /\ rel' = [i \in 1..Len(data) |-> 0]
    /\ netreq' = [i \in 1..Len(data) |-> FALSE]
    /\ pos' = [i \in 1..Len(data) |-> 0]
    /\ pre' = [i \in 1..Len(data) |-> NotChecked]
    /\ sigMid' = [i \in 1..Len(data) |-> FALSE]
    /\ after' = [i \in 1..Len(data) |-> NothingAfter]
    /\ \E d \in [ Entries(data) -> UNION { PreFiles(e) : e \in Entries(data) } ] :
         /\ \A e \in Entries(data) : d[e] \in PreFiles(e)
         /\ disk' = d
    /\ mpc' = "df_start"
    /\ UNCHANGED << fsVars, mainVars, outcome, stack, listVars, poolInt, interrupts >>

\* lines 155-156: thread.start()
StartThread ==
    /\ mpc = "df_start" /\ si <= Len(data)
    /\ wpc' = [wpc EXCEPT ![si] = "acquire"]
    /\ lateStart' = (lateStart \/ event)
    /\ si' = si + 1
    /\ UNCHANGED << after, fsVars, owner, mainVars, mpc, outcome, stack, listVars,
                    event, setCount, permits, wres, acq, rel, netreq, pos, pre, sigMid,
                    disk, poolInt, interrupts >>

\* line 158: every thread is started, the try block is entered
EnterWait ==
    /\ mpc = "df_start" /\ si > Len(data)
    /\ mpc' = "df_wait"
    /\ UNCHANGED << fsVars, mainVars, outcome, stack, listVars, poolVars, workerVars,
                    poolInt, interrupts >>

\* line 160 with the test dropped: the loop is left at once
NoWait(ts) == TRUE

\* line 160: all(not thread.is_alive() for thread in total_threads)
AllDone(ts) == \A i \in ts : ~Alive(i)

\* lines 159-161: the loop is left, download_folder returns; its locals are
\* gone unless a thread still uses them
PoolReturn ==
    /\ mpc = "df_wait"
    /\ AllDone(Threads)
    /\ mpc' = "gf_sub"
    /\ IF \A i \in Threads : ~Alive(i)
       THEN LeaveFolder
       ELSE UNCHANGED << listVars, poolVars, workerVars >>
    /\ UNCHANGED << fsVars, mainVars, outcome, stack, poolInt, interrupts >>

\* KeyboardInterrupt inside the try block of lines 158-162
InterruptInWait ==
    /\ mpc = "df_wait"
    /\ interrupts < MaxInterrupts
    /\ interrupts' = interrupts + 1
    /\ poolInt' = TRUE
    /\ mpc' = "df_except"
    /\ UNCHANGED << fsVars, mainVars, outcome, stack, listVars, poolVars, workerVars >>

\* KeyboardInterrupt at any other statement of the main thread: it
\* propagates to the handler of lines 246-247
InterruptElsewhere ==
    /\ mpc \in {"main", "gf_info", "gf_mkdir", "gf_sub", "gf_iter", "df_list",
                "df_start", "df_except", "df_join", "file_chdir"}
    /\ interrupts < MaxInterrupts
    /\ interrupts' = interrupts + 1
    /\ poolInt' = (poolInt \/ mpc \in PoolPcs)
    /\ mpc' = "main_except"
    /\ UNCHANGED << fsVars, mainVars, outcome, stack, listVars, poolVars, workerVars >>

\* KeyboardInterrupt while the main thread is inside download_file: no handler
\* of download_file catches it, the call is abandoned where it stands
InterruptInFile ==
    /\ mpc = "file_dl"
    /\ interrupts < MaxInterrupts
    /\ interrupts' = interrupts + 1
    /\ wpc' = [wpc EXCEPT ![1] = "ended"]
    /\ mpc' = "main_except"
    /\ UNCHANGED << after, fsVars, mainVars, outcome, stack, listVars, poolVars, wres,
                    acq, rel, netreq, pos, pre, sigMid, disk, poolInt >>

\* line 165: event.set()
SetEvent ==
    /\ mpc = "df_except"
    /\ event' = TRUE
    /\ setCount' = setCount + 1
    /\ sigMid' = [i \in Threads |-> sigMid[i] \/ (~event /\ MidTransfer(i))]
    /\ si' = 1
    /\ mpc' = "df_join"
    /\ UNCHANGED << after, fsVars, owner, mainVars, outcome, stack, listVars, permits,
                    lateStart, wpc, wres, acq, rel, netreq, pos, pre, disk, poolInt,
                    interrupts >>

\* lines 166-167: thread.join()
JoinThread ==
    /\ mpc = "df_join" /\ si <= Len(data)
    /\ ~Alive(si)
    /\ si' = si + 1
    /\ UNCHANGED << fsVars, owner, mainVars, mpc, outcome, stack, listVars, event,
                    setCount, permits, lateStart, workerVars, poolInt, interrupts >>

\* lines 168-169: exit(0) once every thread is joined
InterruptExit ==
    /\ mpc = "df_join" /\ si > Len(data)
    /\ mpc' = "shutdown"
    /\ outcome' = "interrupted"
    /\ UNCHANGED << fsVars, mainVars, stack, listVars, poolVars, workerVars, poolInt,
                    interrupts >>

\* lines 246-247: exit(0)
MainExcept ==
    /\ mpc = "main_except"
    /\ mpc' = "shutdown"
    /\ outcome' = "interrupted"
    /\ UNCHANGED << fsVars, mainVars, stack, listVars, poolVars, workerVars, poolInt,
                    interrupts >>

\* the interpreter ends the process once no non-daemon thread is alive
ProcessExit ==
    /\ mpc = "shutdown"
    /\ \A i \in Threads : ~Alive(i)
    /\ mpc' = "terminated"
    /\ UNCHANGED << fsVars, mainVars, outcome, stack, listVars, poolVars, workerVars,
                    poolInt, interrupts >>

\* ---- download_file (lines 171-239) ----------------------------------------
\* download_file was given a limiter: it runs as a thread of a pool
Limiter == mpc # "file_dl"

mainSide == << mainVars, fsVars, mpc, outcome, stack, listVars, event, setCount, si,
               lateStart, owner, poolInt, interrupts >>

\* an exit path: its limiter.release() and return
Finish(i, path) ==
    /\ wres' = [wres EXCEPT ![i] = path]
    /\ wpc' = [wpc EXCEPT ![i] = "returning"]
    /\ IF Limiter /\ ReleasesOn(path)
       THEN permits' = permits + 1 /\ rel' = [rel EXCEPT ![i] = @ + 1]
       ELSE permits' = permits /\ rel' = rel

\* line 173: limiter.acquire()
Acquire(i) ==
    /\ wpc[i] = "acquire"
    /\ permits > 0
    /\ permits' = permits - 1
    /\ acq' = [acq EXCEPT ![i] = @ + 1]
    /\ wpc' = [wpc EXCEPT ![i] = "check"]
    /\ UNCHANGED << after, mainSide, wres, rel, netreq, pos, pre, sigMid, disk >>

\* lines 175-186: the local file exists with the remote hash: skip
CheckLocal(i) ==
    /\ wpc[i] = "check"
    /\ IF UpToDate(disk[data[i]], data[i])
       THEN /\ Finish(i, "skipped")
            /\ pre' = [pre EXCEPT ![i] = Checked(disk[data[i]], event)]
       ELSE /\ wpc' = [wpc EXCEPT ![i] = "precheck"]
            /\ pre' = [pre EXCEPT ![i] = Checked(disk[data[i]], FALSE)]
            /\ UNCHANGED << wres, permits, rel >>
    /\ UNCHANGED << after, mainSide, acq, netreq, pos, sigMid, disk >>

\* lines 190-194: cancelled before the transfer
CheckEvent(i) ==
    /\ wpc[i] = "precheck"
    /\ after' = [after EXCEPT ![i].late = event]
    /\ IF event
       THEN Finish(i, "cancelled")
       ELSE /\ wpc' = [wpc EXCEPT ![i] = "head"]
            /\ UNCHANGED << wres, permits, rel >>
    /\ UNCHANGED << mainSide, acq, netreq, pos, pre, sigMid, disk >>

\* line 197: requests.head(download_link); an exception is caught at 205
Preflight(i) ==
    /\ wpc[i] = "head"
    /\ netreq' = [netreq EXCEPT ![i] = TRUE]
    /\ \E r \in {"plain", "gzip", "error"} :
        IF r = "error"
        THEN Finish(i, "blocked")
        ELSE /\ wpc' = [wpc EXCEPT ![i] = IF r = "gzip" THEN "page" ELSE "get"]
             /\ UNCHANGED << wres, permits, rel >>
    /\ UNCHANGED << after, mainSide, acq, pos, pre, sigMid, disk >>

\* lines 198-209: the interstitial page and its download link
Interstitial(i) ==
    /\ wpc[i] = "page"
    /\ netreq' = [netreq EXCEPT ![i] = TRUE]
    /\ \E found \in BOOLEAN :
        IF found
        THEN /\ wpc' = [wpc EXCEPT ![i] = "get"]
             /\ UNCHANGED << wres, permits, rel >>
        ELSE Finish(i, "blocked")
    /\ UNCHANGED << after, mainSide, acq, pos, pre, sigMid, disk >>

\* lines 212-214: requests.get, raise_for_status, open(filename, "wb")
OpenTransfer(i) ==
    /\ wpc[i] = "get"
    /\ netreq' = [netreq EXCEPT ![i] = TRUE]
    /\ \E ok \in BOOLEAN :
        IF ok
        THEN /\ disk' = [disk EXCEPT ![data[i]] = OpenWb(@)]
             /\ wpc' = [wpc EXCEPT ![i] = "s_read"]
             /\ UNCHANGED << wres, permits, rel >>
        ELSE /\ Finish(i, "failed")
             /\ disk' = disk
    /\ UNCHANGED << after, mainSide, acq, pos, pre, sigMid >>

\* line 215: the next chunk of r.iter_content, or the end of the body
ReadChunk(i) ==
    /\ wpc[i] = "s_read"
    /\ IF pos[i] < Len(Body(data[i]))
       THEN /\ pos' = [pos EXCEPT ![i] = @ + 1]
            /\ wpc' = [wpc EXCEPT ![i] = "s_check"]
            /\ after' = [after EXCEPT ![i].reads = IF event THEN @ + 1 ELSE @]
       ELSE /\ pos' = pos
            /\ wpc' = [wpc EXCEPT ![i] = "post"]
            /\ after' = [after EXCEPT ![i].full = TRUE]
    /\ UNCHANGED << mainSide, wres, permits, acq, rel, netreq, pre, sigMid, disk >>

\* lines 221-226: the transfer raises while streaming
TransferError(i) ==
    /\ wpc[i] = "s_read"
    /\ Finish(i, "failed")
    /\ UNCHANGED << after, mainSide, acq, netreq, pos, pre, sigMid, disk >>

\* lines 216-218 with the check dropped
StopsNever(ev) == FALSE

\* lines 216-218: if event.is_set(): break
Stops(ev) == ev

\* lines 216-218: the check before each write
CheckChunk(i) ==
    /\ wpc[i] = "s_check"
    /\ wpc' = [wpc EXCEPT ![i] = IF Stops(event) THEN "post" ELSE "s_write"]
    /\ UNCHANGED << after, mainSide, wres, permits, acq, rel, netreq, pos, pre, sigMid,
                    disk >>

\* lines 219-220: f.write(chunk)
Write(i) ==
    /\ wpc[i] = "s_write"
    /\ disk' = [disk EXCEPT ![data[i]] = WriteChunk(@, Body(data[i])[pos[i]])]
    /\ after' = [after EXCEPT ![i].writes =
                    IF event /\ Body(data[i])[pos[i]] # 0 THEN @ + 1 ELSE @]
    /\ wpc' = [wpc EXCEPT ![i] = "s_read"]
    /\ UNCHANGED << mainSide, wres, permits, acq, rel, netreq, pos, pre, sigMid >>

\* lines 228-239: after the transfer
AfterTransfer(i) ==
    /\ wpc[i] = "post"
    /\ IF event
       THEN /\ disk' = [disk EXCEPT ![data[i]] = Absent]
            /\ Finish(i, "cancelled")
       ELSE /\ disk' = disk
            /\ Finish(i, "completed")
    /\ UNCHANGED << after, mainSide, acq, netreq, pos, pre, sigMid >>

\* download_file has returned: the thread ends
ThreadEnd(i) ==
    /\ Limiter
    /\ wpc[i] = "returning"
    /\ wpc' = [wpc EXCEPT ![i] = "ended"]
    /\ UNCHANGED << after, mainSide, wres, permits, acq, rel, netreq, pos, pre, sigMid,
                    disk >>

Next ==
    \/ MainInvalid
    \/ MainFolder
    \/ MainFile
    \/ MainFileCall
    \/ MainFileReturn
    \/ MainDone
    \/ GetFoldersInfo
    \/ GetFoldersEnter
    \/ GetFoldersList
    \/ GetFoldersRecurse
    \/ GetFoldersReturn
    \/ ListChunk
    \/ ListKeyError
    \/ CreatePool
    \/ StartThread
    \/ EnterWait
    \/ PoolReturn
    \/ InterruptInWait
    \/ InterruptElsewhere
    \/ InterruptInFile
    \/ SetEvent
    \/ JoinThread
    \/ InterruptExit
    \/ MainExcept
    \/ ProcessExit
    \/ \E i \in Threads : Acquire(i)
    \/ \E i \in Threads : CheckLocal(i)
    \/ \E i \in Threads : CheckEvent(i)
    \/ \E i \in Threads : Preflight(i)
    \/ \E i \in Threads : Interstitial(i)
    \/ \E i \in Threads : OpenTransfer(i)
    \/ \E i \in Threads : ReadChunk(i)
    \/ \E i \in Threads : TransferError(i)
    \/ \E i \in Threads : CheckChunk(i)
    \/ \E i \in Threads : Write(i)
    \/ \E i \in Threads : AfterTransfer(i)
    \/ \E i \in Threads : ThreadEnd(i)

Spec == Init /\ [][Next]_vars

\* ---- one download_folder call on its own --------------------------------
\* the state at line 122 of the call for the root folder of a folder link
InitPool ==
    /\ links = << Url("mediafire.com", "folder", RootKey) >>
    /\ li = 1
    /\ linkLog = << "request" >>
    /\ threads_num \in 1..MaxThreads
    /\ output_path = << "." >>
    /\ style = "plain"
    /\ cwd = AbsPath(StartDir, RemoteName(RootKey, style))
    /\ dirs = Makedirs(Makedirs({}, StartDir), cwd)
    /\ visits = << RootKey >>
    /\ mpc = "df_list"
    /\ outcome = "running"
    /\ stack = << [Frame(RootKey, Join(output_path, RemoteName(RootKey, style)), TRUE)
                     EXCEPT !.dir = cwd, !.made = TRUE] >>
    /\ pages \in { PagesOf(s) : s \in Pagings(MaxFiles) }
    /\ chunk = 1 /\ more_chunks = TRUE /\ data = <<>> /\ requested = <<>>
    /\ event = FALSE /\ setCount = 0 /\ permits = 0 /\ si = 1
    /\ lateStart = FALSE /\ owner = ""
    /\ wpc = <<>> /\ wres = <<>> /\ acq = <<>> /\ rel = <<>> /\ netreq = <<>>
    /\ pos = <<>> /\ pre = <<>> /\ sigMid = <<>> /\ after = <<>> /\ disk = <<>>
    /\ poolInt = FALSE
    /\ interrupts = 0

NextPool ==
    \/ ListChunk
    \/ ListKeyError
    \/ CreatePool
    \/ StartThread
    \/ EnterWait
    \/ PoolReturn
    \/ InterruptInWait
    \/ InterruptElsewhere
    \/ SetEvent
    \/ JoinThread
    \/ InterruptExit
    \/ MainExcept
    \/ ProcessExit
    \/ \E i \in Threads : Acquire(i)
    \/ \E i \in Threads : CheckLocal(i)
    \/ \E i \in Threads : CheckEvent(i)
    \/ \E i \in Threads : Preflight(i)
    \/ \E i \in Threads : Interstitial(i)
    \/ \E i \in Threads : OpenTransfer(i)
    \/ \E i \in Threads : ReadChunk(i)
    \/ \E i \in Threads : TransferError(i)
    \/ \E i \in Threads : CheckChunk(i)
    \/ \E i \in Threads : Write(i)
    \/ \E i \in Threads : AfterTransfer(i)
    \/ \E i \in Threads : ThreadEnd(i)

SpecPool == InitPool /\ [][NextPool]_vars

\* ---- fair scheduling -------------------------------------------------------
\* a step of the main thread other than the arrival of a KeyboardInterrupt
MainStep ==
    \/ ListChunk
    \/ ListKeyError
    \/ CreatePool
    \/ StartThread
    \/ EnterWait
    \/ PoolReturn
    \/ SetEvent
    \/ JoinThread
    \/ InterruptExit
    \/ MainExcept
    \/ ProcessExit

\* a step of thread i; its network operations return or fail
WorkerStep(i) ==
    /\ i \in Threads
    /\ \/ Acquire(i)
       \/ CheckLocal(i)
       \/ CheckEvent(i)
       \/ Preflight(i)
       \/ Interstitial(i)
       \/ OpenTransfer(i)
       \/ ReadChunk(i)
       \/ TransferError(i)
       \/ CheckChunk(i)
       \/ Write(i)
       \/ AfterTransfer(i)
       \/ ThreadEnd(i)

\* a download_folder call whose file listing comes in one chunk
InitPoolFair == InitPool /\ Len(pages) = 1

\* that call under a scheduler that lets every thread that can run take a
\* step; a KeyboardInterrupt may or may not arrive
SpecPoolFair ==
    /\ InitPoolFair
    /\ [][NextPool]_vars
    /\ WF_vars(MainStep)
    /\ \A i \in 1..MaxFiles : WF_vars(WorkerStep(i))

\* ---- properties -----------------------------------------------------------
Holders == { i \in Threads : Holding(i) }
Ended(i) == wpc[i] = "ended"
FoundStale(i) ==
    /\ pre[i].checked /\ pre[i].file.exists
    /\ hash_file(pre[i].file.bytes) # hash_file(Content(Body(data[i])))
FoundUpToDate(i) ==
    /\ pre[i].checked /\ pre[i].file.exists
    /\ hash_file(pre[i].file.bytes) = hash_file(Content(Body(data[i])))

RECURSIVE Flatten(_)
Flatten(pp) == IF pp = <<>> THEN <<>> ELSE Head(pp) \o Flatten(Tail(pp))

\* C1: at no time do more than threads_num workers hold a permit of the
\* pool's BoundedSemaphore (acquired and not yet released).
C1_ConcurrencyBound == Cardinality(Holders) <= threads_num

\* threads_num workers hold a permit while another one waits for one
C1_Witness ==
    /\ Cardinality(Holders) = threads_num
    /\ \E i \in Threads : wpc[i] = "acquire"

C3_NoFileAfterCancel ==
    \A i \in Threads : (sigMid[i] /\ Ended(i)) => ~disk[data[i]].exists

\* C4: once control has left download_folder, no worker of its pool is alive.
C4_ReturnsAfterWorkers ==
    mpc \notin PoolPcs => \A i \in Threads : ~Alive(i)

\* C5: a KeyboardInterrupt arriving while the pool is active sets event (once,
\* never cleared), no thread is started after event is set, and the run ends
\* only when every worker has ended.
C5_InterruptCancelsPool ==
    /\ setCount <= 1
    /\ event = (setCount = 1)
    /\ ~lateStart
    /\ mpc = "terminated" => \A i \in Threads : ~Alive(i)
    /\ (poolInt /\ mpc \in {"main_except", "shutdown", "terminated"}) => event

\* C6: a worker that finds its local file with the remote hash ends as
\* skipped, has made no network request and has left the file as it found
\* it, whether or not event is set.
C6_UpToDateSkipped ==
    \A i \in Threads :
        FoundUpToDate(i) =>
            /\ wpc[i] \in {"returning", "ended"}
            /\ wres[i] = "skipped"
            /\ ~netreq[i]
            /\ disk[data[i]] = pre[i].file

\* a worker skipped its up-to-date file with event already set
C6_Witness ==
    \E i \in Threads :
        FoundUpToDate(i) /\ pre[i].sig /\ Ended(i) /\ wres[i] = "skipped"

\* C7 as claimed: a worker that found a local file with another hash has,
\* once ended, left a file whose hash is the remote hash.
C7_StaleAlwaysRecovered ==
    \A i \in Threads :
        (FoundStale(i) /\ Ended(i)) =>
            /\ disk[data[i]].exists
            /\ hash_file(disk[data[i]].bytes) = RemoteHash(data[i])

\* C7 (amended): a worker that found a local file with another hash and ended
\* as completed has left a file whose hash is the remote hash.
C7_StaleRecoveredWhenCompleted ==
    \A i \in Threads :
        (FoundStale(i) /\ Ended(i) /\ wres[i] = "completed") =>
            /\ disk[data[i]].exists
            /\ hash_file(disk[data[i]].bytes) = RemoteHash(data[i])

\* a worker found a stale file and completed
C7_Witness ==
    \E i \in Threads : FoundStale(i) /\ Ended(i) /\ wres[i] = "completed"

\* C8: download_folder asks for chunks 1, 2, ..., k of a k-chunk listing in
\* that order and no others, and once its threads are started there is one
\* started thread for each of the N entries, in listing order, none twice.
C8_PaginationComplete ==
    /\ \E n \in 0..Len(pages) : requested = [k \in 1..n |-> k]
    /\ mpc = "df_wait" =>
         /\ requested = [k \in 1..Len(pages) |-> k]
         /\ data = Flatten(pages)
         /\ Threads = 1..Len(data)
         /\ \A i \in Threads : wpc[i] # "unstarted"
         /\ \A i, j \in Threads : data[i] = data[j] => i = j

\* two entries served in two chunks, both threads started
C8_Witness ==
    /\ mpc = "df_wait"
    /\ Len(pages) = 2 /\ Len(pages[1]) = 1 /\ Len(pages[2]) = 1
    /\ Len(data) = 2

\* C9: a listing response without the expected fields never terminates the
\* run.
C9_MalformedListingContained == outcome # "crashed:folder_content"

\* C10: the run is cut short only by a KeyboardInterrupt: whatever the
\* workers of a pool ran into, a run that is over without having gone
\* through all its links and folders was interrupted.
C10_OnlyInterruptEndsRun ==
    outcome \notin {"running", "completed"} => interrupts > 0


\* ---- links (lines 48-72) --------------------------------------------------
\* the canonical shape the specification names: mediafire.com/<kind>/<key>
\* with a kind of folder, file or file_premium and a non-empty key
Canonical(link) ==
    /\ link.host = "mediafire.com"
    /\ ~(link.kind \notin {"folder", "file", "file_premium"})
    /\ Len(link.key) > 0

Processed(k) == k < li \/ outcome = "completed"

\* C11: a link without the canonical shape is reported as invalid, no network
\* call is made for it, and the run does not stop at it: once main is past the
\* link it has been reported, and the run never crashes at it
C11_InvalidLinkSkipped ==
    \A k \in 1..Len(links) :
        ~Canonical(links[k]) =>
            /\ linkLog[k] # "request"
            /\ Processed(k) => linkLog[k] = "invalid"
            /\ li = k => outcome \in {"running", "interrupted"}

\* an invalid first link was reported and main is downloading the second link
C11_Witness ==
    /\ Len(links) = 2 /\ li = 2
    /\ ~Canonical(links[1]) /\ linkLog[1] = "invalid"
    /\ linkLog[2] = "request"

\* ---- directories (lines 93-119) ---------------------------------------------
\* the calls of get_folders that are past os.chdir (line 108)
Entered == { k \in 1..Len(stack) : stack[k].dir # <<>> }

\* C12: the local directory of every visited folder exists before its files
\* are listed and downloaded and before its subfolders are processed; a
\* directory that is already there is not created again and makes nothing fail
C12_DirectoryBeforeUse ==
    /\ outcome # "crashed:makedirs"
    /\ \A k \in Entered : stack[k].dir \in dirs /\ ~(stack[k].existed /\ stack[k].made)
    /\ \A k \in 1..Len(stack) :
        (k < Len(stack) \/ mpc \in PoolPcs \cup {"df_list", "gf_sub", "gf_iter"})
            => k \in Entered

\* a subfolder's directory was there from an earlier run and its file is
\* being downloaded into it
C12_Witness ==
    /\ Len(stack) = 2 /\ Top.existed /\ ~Top.made
    /\ mpc = "df_wait"
    /\ \E i \in Threads : wpc[i] = "s_write"

\* ---- traversal (lines 93-119, 155-162) --------------------------------------
\* C13: while a worker thread is running, the main thread is inside the
\* download_folder call that started it (or has been interrupted and is on
\* its way out of the program): it is not listing subfolders, not in another
\* folder and not starting another folder's threads, so the running workers
\* all belong to the folder being downloaded.  A single file link runs
\* download_file in the main thread itself.
C13_OnePoolAtATime ==
    \A i \in Threads :
        Alive(i) =>
            \/ mpc = "file_dl"
            \/ /\ mpc \in PoolPcs \cup {"main_except", "shutdown"}
               /\ owner = Top.key

\* the worker of subfolder A is transferring while A's own subfolder and the
\* rest of the root's subfolders are still to be visited
C13_Witness ==
    /\ Len(stack) = 2 /\ Top.key = "A" /\ owner = "A"
    /\ mpc = "df_wait"
    /\ \E i \in Threads : wpc[i] = "s_read"

\* the folders of the trees below the keys ks, parents before children and
\* siblings in the order of the complete (all chunks) subfolder listing
RECURSIVE PreOrder(_)
PreOrder(ks) ==
    IF ks = <<>> THEN <<>>
    ELSE << Head(ks) >> \o PreOrder(Flatten(FolderChunks(Head(ks))) \o Tail(ks))

\* C14: when the get_folders call of a folder link has returned, every folder
\* of the remote tree was visited exactly once, in server order, subfolders
\* of every chunk of a listing included
C14_EveryFolderVisited ==
    (visits # <<>> /\ stack = <<>>) => visits = PreOrder(<< visits[1] >>)

\* ---- names (lines 24-32, 96-104, 118, 177) ----------------------------------
\* C15: the local directory of every visited folder, root and descendants,
\* is named by the normalizer's output for the folder's remote name
C15_DirectoriesNormalized ==
    \A k \in Entered :
        stack[k].dir[Len(stack[k].dir)] =
            normalize_file_or_folder_name(RemoteName(stack[k].key, style))

\* ---- working directory (lines 62-63, 108, 119) ------------------------------
\* C19: from os.chdir of line 108 on, at every statement of a get_folders
\* call and of the download_folder call and worker threads it runs, the
\* working directory is that folder's local directory; in particular it is
\* the parent's directory again after a child was visited and left
C19_CwdIsFolderDirectory ==
    (stack # <<>> /\ Len(stack) \in Entered) => cwd = Top.dir

\* the directory the user named as output folder
OutputDir == AbsPath(StartDir, output_path)

\* C20: whatever links were processed before, a folder link's root directory
\* is <output directory>/<normalized folder name>, and a file link's file is
\* written in the output directory
C20_RootUnderOutputDir ==
    /\ \A k \in Entered :
        stack[k].first =>
            stack[k].dir = Append(OutputDir,
                normalize_file_or_folder_name(RemoteName(stack[k].key, style)))
    /\ mpc = "file_dl" => cwd = OutputDir

\* ---- cancellation checkpoints (lines 190-234) -------------------------------
\* a thread whose pre-transfer check (line 190) saw event set made no
\* network request
LateStaysOffline == \A i \in Threads : after[i].late => ~netreq[i] /\ pos[i] = 0

\* C16 as stated: once event is set a transferring worker writes at most one
\* further chunk and takes no further chunk from the response, and a worker
\* whose pre-transfer check comes after the signal starts no network I/O
C16_NoInputAfterSignal ==
    /\ \A i \in Threads : after[i].writes <= 1 /\ after[i].reads = 0
    /\ LateStaysOffline

\* C16, amended: once event is set a transferring worker writes at most one
\* further chunk and takes at most one further chunk from the response, the
\* one r.iter_content hands over before the next check of line 217; a worker
\* whose pre-transfer check comes after the signal starts no network I/O
C16_OneChunkAfterSignal ==
    /\ \A i \in Threads : after[i].writes <= 1 /\ after[i].reads <= 1
    /\ LateStaysOffline

\* a worker wrote one chunk and took one more after the signal and was
\* cancelled, and another one found the signal set at its pre-transfer check
C16_Witness ==
    /\ \E i \in Threads :
        after[i].writes = 1 /\ after[i].reads = 1 /\ wres[i] = "cancelled"
    /\ \E i \in Threads : after[i].late /\ wres[i] = "cancelled"

\* the whole response body of worker i's entry
FullFile(i) == File(Content(Body(data[i])))

\* C18: a worker that has written every chunk of the response body
\* (r.iter_content was exhausted) ends as Completed with the full file on
\* disk, whenever the signal is set
C18_FullFileKept ==
    \A i \in Threads :
        (after[i].full /\ Ended(i)) =>
            wres[i] = "completed" /\ disk[data[i]] = FullFile(i)

\* ---- termination (lines 139-169, 171-239) -----------------------------------
\* thread i has acquired its permit and reached the end of download_file
Terminal(i) == i \in Threads => acq[i] = 1 /\ wpc[i] \in {"returning", "ended"}

====
